---------------------------- MODULE Spec2Model ----------------------------
(***************************************************************************)
(* A model of the spatial-geometry core of rollroll:                       *)
(*   engine/primitives.rs  Polygon (identity, contains_point, SAT)         *)
(*   engine/quadtree.rs    QuadTree / QuadTreeInner                        *)
(*                                                                         *)
(* Numbers.  The program computes in f32.  The model computes in the       *)
(* integers: every coordinate used below is a small integer, on which the  *)
(* f32 operations of the code (subtraction, product, min, max, compare)    *)
(* are exact.  Two things f32 does that the integers do not are modelled   *)
(* explicitly: the sign of a zero (is_sign_positive reads it) and the      *)
(* rounding of a midpoint to a representable value (the integers are the   *)
(* representable values of the quadtree's number line).  Where the size of *)
(* a result matters the call records den, the denominator of the           *)
(* coordinate grid: a coordinate n then stands for the f32 value n/den     *)
(* (den a power of two, so that the f32 operations stay exact).            *)
(***************************************************************************)
EXTENDS Integers, Sequences, FiniteSets, TLC

VARIABLES
    POLYGON_ID,   \* primitives.rs:7   the process-wide identity counter
    self,         \* the Polygon a method of primitives.rs is called on
    call,         \* the last method call: its name, arguments and return value
    pc,           \* per thread: where it stands inside Polygon::new
    local,        \* per thread: the locals of its Polygon::new call (id, vertices)
    pool,         \* the Polygon values alive, each with the new call it stems from
    issued,       \* history: the values fetch_add returned, in the order of the increments
    store,        \* quadtree.rs:133  QuadTree.store: id -> Polygon
    root,         \* quadtree.rs:134  QuadTree.root: the tree of QuadTreeInner nodes
    crashed,      \* the process was aborted (stack overflow or failed assertion)
    cursor,       \* the caller's position in the catalogue of shapes it inserts
    gone,         \* history: ids removed at a point strictly inside them alone
    dimensions,   \* world.rs:28  WorldBuilder.dimensions
    generated_tiles,  \* world.rs:29
    queue,        \* world.rs:30  the pending grid cells
    possible_carvers, \* world.rs:31
    carvers,      \* world.rs:32  the active carvers
    stage,        \* world.rs:33
    start_num_tiles,  \* world.rs:34
    rng,          \* the thread's pseudo-random generator
    at,           \* where control stands in generate: "idle", "loop" or "check"
    result,       \* what the last call of generate returned, once it has
    worked,       \* the running call of generate has completed a unit of work
    panicked      \* generate has panicked

geomVars == <<self>>
idVars == <<pc, local, pool, issued>>
indexVars == <<store, root, crashed, cursor, gone>>
builderVars == <<dimensions, generated_tiles, queue, possible_carvers, carvers,
                 stage, start_num_tiles>>
worldVars == <<builderVars, rng, at, result, worked, panicked>>
notGeomVars == <<idVars, indexVars, worldVars>>
notIdVars == <<geomVars, call, indexVars, worldVars>>
notIndexVars == <<geomVars, idVars, worldVars>>
notWorldVars == <<call, geomVars, idVars, indexVars>>
vars == <<POLYGON_ID, call, geomVars, idVars, indexVars, worldVars>>

NoPolygon == [id |-> 0, vertices |-> <<>>, edges |-> <<>>]

None == [kind |-> "None"]
Some(v) == [kind |-> "Some", v |-> v]
Panic == [kind |-> "Panic"]
NoCall == [op |-> "none"]

-----------------------------------------------------------------------------
(* glam::Vec2 on exact numbers *)

Vec2(x, y) == <<x, y>>
VSub(a, b) == <<a[1] - b[1], a[2] - b[2]>>
VAdd(a, b) == <<a[1] + b[1], a[2] + b[2]>>
VScale(k, v) == <<k * v[1], k * v[2]>>
Perp(v) == <<-v[2], v[1]>>
Min(a, b) == IF a < b THEN a ELSE b
Max(a, b) == IF a > b THEN a ELSE b

\* The f32 product a * b is the negative zero: one factor is zero and exactly
\* one factor carries a minus sign (a difference x - x is +0.0, never -0.0).
MulIsNegZero(a, b) == a * b = 0 /\ ((a < 0) # (b < 0))

\* ab.cross(ap).z.is_sign_positive() for ab, ap extended with z = 0:
\* z = ab.x * ap.y - ap.x * ab.y.  A zero result is -0.0 exactly when the
\* first product is -0.0 and the second is +0.0.
CrossZSignPositive(ab, ap) ==
    LET t1 == ab[1] * ap[2]
        t2 == ap[1] * ab[2]
    IN  IF t1 # t2 THEN t1 > t2
        ELSE ~(MulIsNegZero(ab[1], ap[2]) /\ ~MulIsNegZero(ap[1], ab[2]))

-----------------------------------------------------------------------------
(* Polygon *)

\* Mutant of Edges: the closing edge last -> first is forgotten
\* (zip with skip(1) but without cycle()).
EdgesWithoutCycle(vertices) ==
    [i \in 1..(Len(vertices) - 1) |-> <<vertices[i], vertices[i + 1]>>]

\* zip(vertices, vertices.cycle().skip(1))
Edges(vertices) ==
    [i \in 1..Len(vertices) |-> <<vertices[i], vertices[(i % Len(vertices)) + 1]>>]

\* The struct Polygon::new builds once the id has been fetched.
PolygonNew(id, vertices) ==
    [id |-> id, vertices |-> vertices, edges |-> Edges(vertices)]

\* The sign recorded for edge i of the polygon p against the point.
EdgeSign(p, i, point) ==
    CrossZSignPositive(VSub(p.edges[i][1], p.edges[i][2]),
                       VSub(p.edges[i][1], point))

\* contains_point: the first edge's sign is recorded, any later edge with
\* another sign returns false; no edge at all returns true.
contains_point(p, point) ==
    \A i \in 1..Len(p.edges) : EdgeSign(p, i, point) = EdgeSign(p, 1, point)

\* vertex.x * axis.x + vertex.y * axis.y
Shadow(vertex, axis) == vertex[1] * axis[1] + vertex[2] * axis[2]

\* The fold of min/max over the shadows of a polygon's vertices on an axis,
\* from vertex i on.  inf marks the interval still at its start values
\* (min = +INFINITY, max = -INFINITY).
RECURSIVE ShadowFold(_, _, _, _)
ShadowFold(vertices, axis, i, acc) ==
    IF i > Len(vertices) THEN acc
    ELSE LET shadow == Shadow(vertices[i], axis)
         IN  ShadowFold(vertices, axis, i + 1,
                 IF acc.inf THEN [inf |-> FALSE, min |-> shadow, max |-> shadow]
                 ELSE [inf |-> FALSE, min |-> Min(acc.min, shadow),
                       max |-> Max(acc.max, shadow)])

Interval(p, axis) == ShadowFold(p.vertices, axis, 1, [inf |-> TRUE])

\* Mutant of AxisList: only the pair (self, other) is looped over, so the
\* edges of other give no axis.
AxisListSelfOnly(a, b) ==
    [i \in 1..Len(a.edges) |->
        LET axis == Perp(VSub(a.edges[i][2], a.edges[i][1]))
        IN  [axis |-> axis, lhs |-> Interval(a, axis), rhs |-> Interval(b, axis)]]

\* The axes of one pass of the outer loop: the perpendicular of each edge of
\* lhs, in vertex order, with the shadows of lhs and of rhs on it.
Axes(lhs, rhs) ==
    [i \in 1..Len(lhs.edges) |->
        LET axis == Perp(VSub(lhs.edges[i][2], lhs.edges[i][1]))
        IN  [axis |-> axis, lhs |-> Interval(lhs, axis), rhs |-> Interval(rhs, axis)]]

\* The axes in the order the two nested loops visit them: the edges of self
\* in vertex order with (lhs, rhs) = (self, other), then the edges of other
\* with (lhs, rhs) = (other, self).
AxisList(a, b) == Axes(a, b) \o Axes(b, a)

\* Mutant of Overlaps: intervals that only meet at an end count as apart.
OverlapsStrictly(e) ==
    /\ ~e.lhs.inf /\ ~e.rhs.inf
    /\ e.rhs.max > e.lhs.min
    /\ e.lhs.max > e.rhs.min

\* max_rhs >= min_lhs && max_lhs >= min_rhs (false against an interval that
\* is still at its start values: -INFINITY >= x is false)
Overlaps(e) ==
    /\ ~e.lhs.inf /\ ~e.rhs.inf
    /\ e.rhs.max >= e.lhs.min
    /\ e.lhs.max >= e.rhs.min

\* max_lhs.min(max_rhs) - min_lhs.max(min_rhs)
CurrentDisplacement(e) ==
    Min(e.lhs.max, e.rhs.max) - Max(e.lhs.min, e.rhs.min)

\* Mutant of Replaces: <= for <, so that the last of equal axes wins.
ReplacesLoose(cur, acc) == acc.kind = "None" \/ cur <= acc.displacement

\* current_displacement < displacement, where displacement starts at
\* +INFINITY (acc = None) and is then the smallest value seen so far.
Replaces(cur, acc) == acc.kind = "None" \/ cur < acc.displacement

\* The loop body from axis i on, with acc the pair (displacement, min_axis).
RECURSIVE SatLoop(_, _, _)
SatLoop(axes, i, acc) ==
    IF i > Len(axes) THEN acc
    ELSE IF ~Overlaps(axes[i]) THEN [kind |-> "Separated"]
    ELSE LET cur == CurrentDisplacement(axes[i])
         IN  SatLoop(axes, i + 1,
                     IF Replaces(cur, acc)
                     THEN [kind |-> "Min", displacement |-> cur,
                           min_axis |-> axes[i].axis, index |-> i]
                     ELSE acc)

\* collision_displacement: None on the first separating axis, otherwise
\* Some(displacement * min_axis); min_axis.unwrap() panics when no axis was
\* visited (two polygons without edges).
collision_displacement(a, b) ==
    LET r == SatLoop(AxisList(a, b), 1, None)
    IN  CASE r.kind = "Separated" -> None
          [] r.kind = "None" -> Panic
          [] OTHER -> Some(VScale(r.displacement, r.min_axis))

collides_with(a, b) == collision_displacement(a, b).kind = "Some"

-----------------------------------------------------------------------------
(* Exact plane geometry, the vocabulary of the properties below *)

\* Twice the signed area of the triangle a, b, c.
Orient(a, b, c) ==
    (b[1] - a[1]) * (c[2] - a[2]) - (b[2] - a[2]) * (c[1] - a[1])

Succ(vs, i) == (i % Len(vs)) + 1

\* Every turn of the closed ring is a strict turn to the same side.
IsConvexRing(vs) ==
    \/ \A i \in 1..Len(vs) : Orient(vs[i], vs[Succ(vs, i)], vs[Succ(vs, Succ(vs, i))]) > 0
    \/ \A i \in 1..Len(vs) : Orient(vs[i], vs[Succ(vs, i)], vs[Succ(vs, Succ(vs, i))]) < 0

\* +1 for a counter-clockwise ring, -1 for a clockwise one.
Winding(vs) == IF Orient(vs[1], vs[2], vs[3]) > 0 THEN 1 ELSE -1

\* The point is in the interior of the convex ring / in its complement's
\* interior / in the closed region.
StrictlyInside(pt, vs) ==
    \A i \in 1..Len(vs) : Winding(vs) * Orient(vs[i], vs[Succ(vs, i)], pt) > 0
StrictlyOutside(pt, vs) ==
    \E i \in 1..Len(vs) : Winding(vs) * Orient(vs[i], vs[Succ(vs, i)], pt) < 0
InClosedRegion(pt, vs) == ~StrictlyOutside(pt, vs)

Sign(n) == IF n > 0 THEN 1 ELSE IF n < 0 THEN -1 ELSE 0
Between(a, b, c) ==
    /\ Min(a[1], b[1]) <= c[1] /\ c[1] <= Max(a[1], b[1])
    /\ Min(a[2], b[2]) <= c[2] /\ c[2] <= Max(a[2], b[2])

\* The closed segments ab and cd have a common point.
SegmentsMeet(a, b, c, d) ==
    \/ /\ Sign(Orient(a, b, c)) * Sign(Orient(a, b, d)) < 0
       /\ Sign(Orient(c, d, a)) * Sign(Orient(c, d, b)) < 0
    \/ Orient(a, b, c) = 0 /\ Between(a, b, c)
    \/ Orient(a, b, d) = 0 /\ Between(a, b, d)
    \/ Orient(c, d, a) = 0 /\ Between(c, d, a)
    \/ Orient(c, d, b) = 0 /\ Between(c, d, b)

\* The closed regions of two convex rings have a common point.
RegionsMeet(vs, ws) ==
    \/ \E i \in 1..Len(vs) : InClosedRegion(vs[i], ws)
    \/ \E j \in 1..Len(ws) : InClosedRegion(ws[j], vs)
    \/ \E i \in 1..Len(vs), j \in 1..Len(ws) :
          SegmentsMeet(vs[i], vs[Succ(vs, i)], ws[j], ws[Succ(ws, j)])

Translated(vs, d) == [i \in 1..Len(vs) |-> VAdd(vs[i], d)]
Rescaled(vs, k) == [i \in 1..Len(vs) |-> VScale(k, vs[i])]

-----------------------------------------------------------------------------
(* The inputs of the geometry specification *)

MaxShift == 2
MaxPoint == 5

Lattice == {Vec2(x, y) : x \in {0, 2, 4}, y \in {0, 2, 4}}

\* Every convex triangle and quadrilateral on the lattice, in every vertex
\* order and both windings.
PolyInputs ==
    {vs \in [1..3 -> Lattice] \cup [1..4 -> Lattice] : IsConvexRing(vs)}

PointInputs == {Vec2(x, y) : x \in -1..MaxPoint, y \in -1..MaxPoint}

OtherShapes ==
    { <<Vec2(0, 0), Vec2(2, 0), Vec2(0, 2)>>,
      <<Vec2(0, 0), Vec2(2, 0), Vec2(2, 2), Vec2(0, 2)>> }

ShiftInputs == {Vec2(x, y) : x \in -MaxShift..MaxShift, y \in -MaxShift..MaxShift}

Denominators == {1, 4}

-----------------------------------------------------------------------------
(* The geometry specification: one polygon, and the calls made on it *)

\* The variables of the other specifications, at rest.
IdleIds == pc = <<>> /\ local = <<>> /\ pool = {} /\ issued = <<>>
IdleGeom == self = NoPolygon
IdleIndex ==
    store = <<>> /\ root = <<>> /\ crashed = FALSE /\ cursor = 0 /\ gone = {}
IdleWorld ==
    /\ dimensions = <<>> /\ generated_tiles = <<>> /\ queue = <<>>
    /\ possible_carvers = <<>> /\ carvers = <<>> /\ stage = "" /\ start_num_tiles = 0
    /\ rng = <<>> /\ at = "" /\ result = <<>> /\ worked = FALSE /\ panicked = FALSE

InitGeom ==
    /\ \E vs \in PolyInputs : self = PolygonNew(1, vs)
    /\ POLYGON_ID = 2
    /\ call = NoCall
    /\ IdleIds /\ IdleIndex /\ IdleWorld

\* self.contains_point(point)
CallContainsPoint ==
    /\ call = NoCall
    /\ \E pt \in PointInputs :
          call' = [op |-> "contains_point", point |-> pt,
                   ret |-> contains_point(self, pt)]
    /\ UNCHANGED <<POLYGON_ID, geomVars, notGeomVars>>

\* let other = Polygon::new(..); self.collision_displacement(&other)
CallCollisionDisplacement ==
    /\ call = NoCall
    /\ \E shape \in OtherShapes, d \in ShiftInputs :
          LET other == PolygonNew(POLYGON_ID, Translated(shape, d))
          IN  call' = [op |-> "collision_displacement", other |-> other, den |-> 1,
                       ret |-> collision_displacement(self, other)]
    /\ POLYGON_ID' = POLYGON_ID + 1
    /\ UNCHANGED <<geomVars, notGeomVars>>

\* let copy = Polygon::new(self.vertices().copied().collect());
\* self.collision_displacement(&copy), on a grid of denominator den
CallCollisionWithCopy ==
    /\ call = NoCall
    /\ \E d \in Denominators :
          LET other == PolygonNew(POLYGON_ID, self.vertices)
          IN  call' = [op |-> "collision_displacement", other |-> other, den |-> d,
                       ret |-> collision_displacement(self, other)]
    /\ POLYGON_ID' = POLYGON_ID + 1
    /\ UNCHANGED <<geomVars, notGeomVars>>

\* The copy moved by the vector a collision with it returned, tested again:
\* Polygon::new(copy.vertices().map(|v| v + displacement)).collides_with(self).
\* With coordinates n/den the vector is ret.v/den^3, so both polygons are
\* written on the grid of denominator den^3.
CallSeparate ==
    /\ call.op = "collision_displacement"
    /\ call.ret.kind = "Some"
    /\ call.other.vertices = self.vertices
    /\ LET k == call.den * call.den
           moved == PolygonNew(POLYGON_ID,
                        Translated(Rescaled(call.other.vertices, k), call.ret.v))
           fixed == [self EXCEPT !.vertices = Rescaled(self.vertices, k),
                                 !.edges = Edges(Rescaled(self.vertices, k))]
       IN  call' = [op |-> "separate", moved |-> moved, fixed |-> fixed,
                    den |-> call.den * k, displacement |-> call.ret.v,
                    collides |-> collides_with(moved, fixed)]
    /\ POLYGON_ID' = POLYGON_ID + 1
    /\ UNCHANGED <<geomVars, notGeomVars>>

NextGeom ==
    \/ CallContainsPoint
    \/ CallCollisionDisplacement
    \/ CallCollisionWithCopy
    \/ CallSeparate

SpecGeom == InitGeom /\ [][NextGeom]_vars

\* The collisions alone: a polygon, and the calls of collision_displacement
\* made on it.
NextPairs ==
    \/ CallCollisionDisplacement
    \/ CallCollisionWithCopy

SpecPairs == InitGeom /\ [][NextPairs]_vars

-----------------------------------------------------------------------------
(* Polygon identity: Polygon::new called from several threads, and clone *)

NThreads == 2
MaxNew == 3
MaxClones == 1

Threads == 1..NThreads

VertexLists ==
    { <<Vec2(0, 0), Vec2(2, 0), Vec2(0, 2)>>,
      <<Vec2(0, 0), Vec2(2, 0), Vec2(2, 2), Vec2(0, 2)>> }

\* Mutant of NextCounter: the counter is read but not advanced (a load()
\* where fetch_add(1) was meant).
NextCounterLoadOnly(c) == c

\* fetch_add(1, Relaxed): the value the counter holds afterwards.  (usize
\* wraps at 2^64; the model stops constructing at MaxNew, far below.)
NextCounter(c) == c + 1

\* Mutant of PolyEq: equality by vertex content.
PolyEqByVertices(p, q) == p.vertices = q.vertices

\* impl PartialEq / Eq for Polygon: the ids alone are compared.
PolyEq(p, q) == p.id = q.id

\* impl Hash for Polygon: what is fed to the hasher, the id alone.
PolyHash(p) == <<p.id>>

InitIds ==
    /\ POLYGON_ID = 1
    /\ pc = [t \in Threads |-> "idle"]
    /\ local = [t \in Threads |-> [id |-> 0, vertices |-> <<>>, born |-> 0]]
    /\ pool = {}
    /\ issued = <<>>
    /\ call = NoCall
    /\ IdleGeom /\ IdleIndex /\ IdleWorld

\* primitives.rs:26, one atomic read-modify-write: the thread takes the
\* counter's value as its id and the counter moves on.  born (history) is
\* the ordinal of this increment.
FetchAdd(t) ==
    /\ pc[t] = "idle"
    /\ Len(issued) < MaxNew
    /\ \E vs \in VertexLists :
          local' = [local EXCEPT ![t] = [id |-> POLYGON_ID, vertices |-> vs,
                                         born |-> Len(issued) + 1]]
    /\ issued' = Append(issued, POLYGON_ID)
    /\ POLYGON_ID' = NextCounter(POLYGON_ID)
    /\ pc' = [pc EXCEPT ![t] = "fetched"]
    /\ UNCHANGED <<pool, notIdVars>>

\* primitives.rs:27-37: the edges are derived and the struct is returned.
Build(t) ==
    /\ pc[t] = "fetched"
    /\ pool' = pool \cup {[poly |-> PolygonNew(local[t].id, local[t].vertices),
                           born |-> local[t].born, copy |-> 0]}
    /\ pc' = [pc EXCEPT ![t] = "idle"]
    /\ UNCHANGED <<POLYGON_ID, local, issued, notIdVars>>

\* #[derive(Clone)]: a field-by-field copy of a value of the pool.  copy
\* (history) tells the copies of one value apart.
Clone(v) ==
    /\ v \in pool
    /\ Cardinality({w \in pool : w.copy > 0}) < MaxClones
    /\ pool' = pool \cup
         {[v EXCEPT !.copy = 1 + Cardinality({w \in pool : w.born = v.born /\ w.copy > 0})]}
    /\ UNCHANGED <<POLYGON_ID, pc, local, issued, notIdVars>>

NextIds ==
    \/ \E t \in Threads : FetchAdd(t)
    \/ \E t \in Threads : Build(t)
    \/ \E v \in pool : Clone(v)

SpecIds == InitIds /\ [][NextIds]_vars

-----------------------------------------------------------------------------
(* QuadTreeInner *)

\* Model value: the largest number of the quadtree's number line (f32::MAX);
\* the line is the integers -F32_MAX..F32_MAX.
F32_MAX == 16

\* quadtree.rs:6
MAX_TREE_ENTRIES == 10

\* The call stack: an insert nested deeper than this never returns.  A leaf
\* that splits halves its rectangle until both sides are at most one unit
\* wide; from there a split re-creates the same rectangle with the same
\* entries, so either it stops within two more levels or it never stops.
\* Half the line is deeper than that (the line has 2 * F32_MAX units, which
\* is at most 2 ^ (F32_MAX \div 2 - 2) for the lines of the model).
StackDepth == F32_MAX \div 2

StackOverflow == [body |-> "StackOverflow"]
AssertFailed == [body |-> "AssertFailed"]
Aborted(node) == node.body \in {"StackOverflow", "AssertFailed"}

\* RangeInclusive<f32>: <<start, end>>
RangeIsEmpty(r) == ~(r[1] <= r[2])
RangeContains(r, x) == r[1] <= x /\ x <= r[2]

\* f32::midpoint: the mean, rounded to the nearest representable number, ties
\* to the even one.
Midpoint(a, b) ==
    LET sum == a + b
        half == sum \div 2
    IN  IF sum % 2 = 0 THEN half
        ELSE IF half % 2 = 0 THEN half ELSE half + 1

new_with_ranges(x_range, y_range) ==
    IF RangeIsEmpty(x_range) \/ RangeIsEmpty(y_range) THEN AssertFailed
    ELSE [body |-> "Elements", elements |-> <<>>,
          x_range |-> x_range, y_range |-> y_range]

QuadTreeInnerNew == new_with_ranges(<<-F32_MAX, F32_MAX>>, <<-F32_MAX, F32_MAX>>)

\* QuadTreeInner::contains_point
NodeContainsPoint(node, point) ==
    RangeContains(node.x_range, point[1]) /\ RangeContains(node.y_range, point[2])

AnyVertexIn(polygon, node) ==
    \E i \in 1..Len(polygon.vertices) : NodeContainsPoint(node, polygon.vertices[i])

\* The four children of a node that splits, in the order of the array.
SplitChildren(node) ==
    LET xs == node.x_range
        ys == node.y_range
        mid_x == Midpoint(xs[2], xs[1])
        mid_y == Midpoint(ys[2], ys[1])
    IN  << new_with_ranges(<<xs[1], mid_x>>, <<mid_y, ys[2]>>),
           new_with_ranges(<<mid_x, xs[2]>>, <<mid_y, ys[2]>>),
           new_with_ranges(<<xs[1], mid_x>>, <<ys[1], mid_y>>),
           new_with_ranges(<<mid_x, xs[2]>>, <<ys[1], mid_y>> ) >>

\* store.get(id) over a list of ids: the polygons of the ids the store knows.
Resolve(elements, st) ==
    SelectSeq(elements, LAMBDA id : id \in DOMAIN st)

AnyAborted(children) == \E c \in 1..Len(children) : Aborted(children[c])

FirstAborted(children) ==
    children[CHOOSE c \in 1..Len(children) :
                 Aborted(children[c]) /\ \A d \in 1..(c - 1) : ~Aborted(children[d])]

\* Mutant of ExceedsEntries: the leaf splits one entry too late.
ExceedsEntriesLate(elements) == Len(elements) > MAX_TREE_ENTRIES + 1

\* Mutant of ExceedsEntries: a leaf never splits.
ExceedsEntriesNever(elements) == FALSE

\* quadtree.rs:69  elements.len() > MAX_TREE_ENTRIES
ExceedsEntries(elements) == Len(elements) > MAX_TREE_ENTRIES

\* A split that cannot come to an end (quadtree.rs:69-95): one of the four
\* children has the rectangle of the node itself, because the midpoint of a
\* range is one of its ends, and the known polygons offered to it fill it
\* past MAX_TREE_ENTRIES, so that it splits in turn, on the same rectangle
\* with the same polygons, and so does its child, until the stack is used up.
SplitsForEver(node, ids, st) ==
    \E c \in 1..4 :
        LET child == SplitChildren(node)[c]
        IN  /\ ~Aborted(child)
            /\ child.x_range = node.x_range
            /\ child.y_range = node.y_range
            /\ ExceedsEntries(SelectSeq(ids, LAMBDA id : AnyVertexIn(st[id], child)))

\* Mutant of Reinsert: the split forgets the ids the leaf held.
ReinsertNone(children, ids, i, st, depth) == children

RECURSIVE InnerInsert(_, _, _, _)
RECURSIVE InsertAll(_, _, _, _)
RECURSIVE ReinsertSpan(_, _, _, _, _, _)
RECURSIVE Reinsert(_, _, _, _, _)

\* QuadTreeInner::insert, at the given nesting depth.  The value is the node
\* afterwards, or the way the process was aborted.
InnerInsert(node, polygon, st, depth) ==
    IF Aborted(node) THEN node
    ELSE IF depth > StackDepth THEN StackOverflow
    ELSE IF ~AnyVertexIn(polygon, node) THEN node
    ELSE IF node.body = "Elements" THEN
        LET elements == Append(node.elements, polygon.id)
            ids == Resolve(elements, st)
        IN  IF ~ExceedsEntries(elements) THEN [node EXCEPT !.elements = elements]
            ELSE IF SplitsForEver(node, ids, st) THEN StackOverflow
            ELSE LET children == Reinsert(SplitChildren(node), ids, Len(ids), st, depth)
                 IN  IF AnyAborted(children) THEN FirstAborted(children)
                     ELSE [body |-> "Children", children |-> children,
                           x_range |-> node.x_range, y_range |-> node.y_range]
    ELSE
        LET children == InsertAll(node.children, polygon, st, depth)
        IN  IF AnyAborted(children) THEN FirstAborted(children)
            ELSE [node EXCEPT !.children = children]

\* children.iter_mut().for_each(|c| c.insert(polygon, store)): the four
\* children in turn, up to the first insert that does not return.
InsertAll(children, polygon, st, depth) ==
    LET c1 == [children EXCEPT ![1] = InnerInsert(@, polygon, st, depth + 1)]
        c2 == [c1 EXCEPT ![2] = InnerInsert(@, polygon, st, depth + 1)]
        c3 == [c2 EXCEPT ![3] = InnerInsert(@, polygon, st, depth + 1)]
        c4 == [c3 EXCEPT ![4] = InnerInsert(@, polygon, st, depth + 1)]
    IN  IF AnyAborted(children) THEN children
        ELSE IF AnyAborted(c1) THEN c1
        ELSE IF AnyAborted(c2) THEN c2
        ELSE IF AnyAborted(c3) THEN c3
        ELSE c4

\* quadtree.rs:91-93 for the polygons from the lo-th to the hi-th of the
\* list: the first half of them, then the second.
ReinsertSpan(children, ids, lo, hi, st, depth) ==
    IF lo > hi THEN children
    ELSE IF lo = hi THEN InsertAll(children, st[ids[lo]], st, depth)
    ELSE LET mid == (lo + hi) \div 2
             first == ReinsertSpan(children, ids, lo, mid, st, depth)
         IN  IF AnyAborted(first) THEN first
             ELSE ReinsertSpan(first, ids, mid + 1, hi, st, depth)

\* quadtree.rs:91-93: every known polygon of the list goes into every child,
\* as far as the i-th of the list.
Reinsert(children, ids, i, st, depth) ==
    IF i = 0 THEN children
    ELSE LET before == ReinsertSpan(children, ids, 1, i - 1, st, depth)
         IN  IF AnyAborted(before) THEN before
             ELSE InsertAll(before, st[ids[i]], st, depth)

RECURSIVE InnerRemoveCollapsing(_, _, _)
\* Mutant of InnerRemoveFromPoint: an internal node whose children are leaves
\* with no more than MAX_TREE_ENTRIES entries between them becomes a leaf.
InnerRemoveCollapsing(node, point, st) ==
    IF ~NodeContainsPoint(node, point) THEN node
    ELSE IF node.body = "Elements" THEN
        [node EXCEPT !.elements =
            SelectSeq(node.elements,
                      LAMBDA id : IF id \in DOMAIN st
                                  THEN ~contains_point(st[id], point)
                                  ELSE FALSE)]
    ELSE
        LET children == [c \in 1..4 |->
                            InnerRemoveCollapsing(node.children[c], point, st)]
            merged == children[1].elements \o children[2].elements
                        \o children[3].elements \o children[4].elements
        IN  IF /\ \A c \in 1..4 : children[c].body = "Elements"
               /\ Len(merged) <= MAX_TREE_ENTRIES
            THEN [body |-> "Elements", elements |-> merged,
                  x_range |-> node.x_range, y_range |-> node.y_range]
            ELSE [node EXCEPT !.children = children]

\* Mutant of InnerRemoveFromPoint: the leaves are left as they are.
InnerRemoveNothing(node, point, st) == node

RECURSIVE InnerRemoveFromPoint(_, _, _)

\* QuadTreeInner::remove_from_point
InnerRemoveFromPoint(node, point, st) ==
    IF ~NodeContainsPoint(node, point) THEN node
    ELSE IF node.body = "Elements" THEN
        [node EXCEPT !.elements =
            SelectSeq(node.elements,
                      LAMBDA id : IF id \in DOMAIN st
                                  THEN ~contains_point(st[id], point)
                                  ELSE FALSE)]
    ELSE
        [node EXCEPT !.children =
            [c \in 1..4 |-> InnerRemoveFromPoint(node.children[c], point, st)]]

\* Mutant of HashSetInsert: a Vec, which keeps repeats.
HashSetInsertUnchecked(set, polygon) == Append(set, polygon)

\* HashSet<&Polygon>: the polygons in the order they went in.  A polygon goes
\* in unless one that is equal to it (PartialEq, by id) is already there.
HashSetInsert(set, polygon) ==
    IF \E i \in 1..Len(set) : PolyEq(set[i], polygon) THEN set
    ELSE Append(set, polygon)

RECURSIVE Collect(_, _, _)

\* iterator.collect::<HashSet<&Polygon>>()
Collect(items, i, set) ==
    IF i > Len(items) THEN set
    ELSE Collect(items, i + 1, HashSetInsert(set, items[i]))

RECURSIVE InnerFindInArea(_, _, _)

\* QuadTreeInner::find_in_area
InnerFindInArea(node, area, st) ==
    IF ~AnyVertexIn(area, node) THEN <<>>
    ELSE IF node.body = "Elements" THEN
        LET known == Resolve(node.elements, st)
            polygons == [i \in 1..Len(known) |-> st[known[i]]]
        IN  Collect(SelectSeq(polygons, LAMBDA p : collides_with(p, area)), 1, <<>>)
    ELSE
        Collect(InnerFindInArea(node.children[1], area, st)
                  \o InnerFindInArea(node.children[2], area, st)
                  \o InnerFindInArea(node.children[3], area, st)
                  \o InnerFindInArea(node.children[4], area, st), 1, <<>>)

-----------------------------------------------------------------------------
(* QuadTree *)

\* HashMap::insert
StoreInsert(st, polygon) ==
    [id \in DOMAIN st \cup {polygon.id} |->
        IF id = polygon.id THEN polygon ELSE st[id]]

\* Mutant of StoreRetain: the master mapping is not purged.
StoreRetainAll(st, point) == st

\* store.retain(|_, p| !p.contains_point(point))
StoreRetain(st, point) ==
    [id \in {i \in DOMAIN st : ~contains_point(st[i], point)} |-> st[id]]

\* QuadTree::len
len == Cardinality(DOMAIN store)

-----------------------------------------------------------------------------
(* The index specification: one QuadTree, and the calls its owner makes *)

\* A right triangle with legs of length 2 at the corner <<x, y>>.
Tile(x, y) == << Vec2(x, y), Vec2(x + 2, y), Vec2(x, y + 2) >>

\* What the owner inserts, in this order: new polygons of these shapes, and
\* (the empty entry) the polygon it inserted last, a second time.  The first
\* shape lies across the centre of the root rectangle, with one vertex in
\* three of its quadrants and none in the fourth.
Catalogue ==
    << << Vec2(-2, -2), Vec2(6, -2), Vec2(-2, 6) >>,
       << >>,
       << Vec2(8, 8), Vec2(12, 8), Vec2(8, 12) >>,
       Tile(14, 8),
       Tile(4, 4), Tile(8, 4), Tile(12, 4), Tile(4, 8), Tile(4, 12),
       Tile(8, 14), Tile(12, 12), Tile(12, 0),
       Tile(0, 12), Tile(-8, -8), Tile(-8, 4) >>

\* The entries the owner may leave out.
Optional == {1, 2, 3}

\* The entries from which the owner may go on to entry k.
MayPrecede(k) ==
    {c \in 0..(k - 1) : \A j \in (c + 1)..(k - 1) : j \in Optional}

\* The areas the owner queries: inside the first shape, away from its
\* vertices; across its lower edge; over the second and third shapes; far
\* from everything; and around everything.
AreaShapes ==
    << << Vec2(1, 1), Vec2(2, 1), Vec2(1, 2) >>,
       << Vec2(-1, -1), Vec2(1, -3), Vec2(3, -1) >>,
       << Vec2(11, 7), Vec2(15, 7), Vec2(15, 9), Vec2(11, 9) >>,
       << Vec2(-15, -15), Vec2(-14, -15), Vec2(-15, -14) >>,
       << Vec2(-13, -13), Vec2(15, -13), Vec2(15, 15), Vec2(-13, 15) >> >>

\* The areas are built once, before the index is used: ids 1..Len(AreaShapes).
Areas == [i \in 1..Len(AreaShapes) |-> PolygonNew(i, AreaShapes[i])]

\* The points the owner removes at.
RemovePoints == { Vec2(1, 1), Vec2(9, 9), Vec2(0, 0) }

\* QuadTree::new()
Init ==
    /\ store = <<>>
    /\ root = QuadTreeInnerNew
    /\ crashed = FALSE
    /\ cursor = 0
    /\ gone = {}
    /\ POLYGON_ID = Len(AreaShapes) + 1
    /\ call = NoCall
    /\ IdleGeom /\ IdleIds /\ IdleWorld

\* The polygons of a store that have the point strictly inside / not strictly
\* outside.
HoldersInside(st, point) ==
    {id \in DOMAIN st : StrictlyInside(point, st[id].vertices)}
HoldersTouching(st, point) ==
    {id \in DOMAIN st : ~StrictlyOutside(point, st[id].vertices)}

\* qt.insert(Polygon::new(shape))
Insert ==
    /\ ~crashed
    /\ \E k \in 1..Len(Catalogue) :
          /\ cursor \in MayPrecede(k)
          /\ Catalogue[k] # <<>>
          /\ LET polygon == PolygonNew(POLYGON_ID, Catalogue[k])
                 st == StoreInsert(store, polygon)
                 after == InnerInsert(root, polygon, st, 1)
             IN  /\ store' = st
                 /\ crashed' = Aborted(after)
                 /\ root' = IF Aborted(after) THEN root ELSE after
                 /\ call' = [op |-> "insert", polygon |-> polygon, before |-> root]
          /\ cursor' = k
    /\ POLYGON_ID' = NextCounter(POLYGON_ID)
    /\ UNCHANGED <<gone, notIndexVars>>

\* qt.insert(polygon.clone()), for the polygon the owner made last
InsertAgain ==
    /\ ~crashed
    /\ \E k \in 1..Len(Catalogue) :
          /\ cursor \in MayPrecede(k)
          /\ Catalogue[k] = <<>>
          /\ POLYGON_ID - 1 \in DOMAIN store
          /\ LET polygon == store[POLYGON_ID - 1]
                 st == StoreInsert(store, polygon)
                 after == InnerInsert(root, polygon, st, 1)
             IN  /\ store' = st
                 /\ crashed' = Aborted(after)
                 /\ root' = IF Aborted(after) THEN root ELSE after
                 /\ call' = [op |-> "insert", polygon |-> polygon, before |-> root]
          /\ cursor' = k
    /\ UNCHANGED <<POLYGON_ID, gone, notIndexVars>>

\* qt.remove_from_point(point)
RemoveFromPoint ==
    /\ ~crashed
    /\ \E point \in RemovePoints :
          /\ root' = InnerRemoveFromPoint(root, point, store)
          /\ store' = StoreRetain(store, point)
          /\ call' = [op |-> "remove_from_point", point |-> point, before |-> store]
          /\ gone' = IF Cardinality(HoldersTouching(store, point)) = 1
                     THEN gone \cup HoldersInside(store, point)
                     ELSE gone
    /\ UNCHANGED <<POLYGON_ID, crashed, cursor, notIndexVars>>

\* qt.find_in_area(&area).collect()
FindInArea ==
    /\ ~crashed
    /\ \E a \in 1..Len(Areas) :
          call' = [op |-> "find_in_area", area |-> Areas[a],
                   ret |-> InnerFindInArea(root, Areas[a], store)]
    /\ UNCHANGED <<POLYGON_ID, indexVars, notIndexVars>>

Next ==
    \/ Insert
    \/ InsertAgain
    \/ RemoveFromPoint
    \/ FindInArea

Spec == Init /\ [][Next]_vars

-----------------------------------------------------------------------------
(* The fan specification: a QuadTree that is given polygons with a common vertex *)

\* The vertex the polygons share.
Hub == Vec2(5, 5)

\* Triangles from the hub to a short edge far from it; no two of the edges
\* have a vertex in common.
Fan(k) == << Hub, Vec2(2 * k - 15, -10), Vec2(2 * k - 15, -12) >>

\* What the owner inserts, in this order; it may leave out the entries of
\* Optional.
FanCatalogue == [k \in 1..(MAX_TREE_ENTRIES + 3) |-> Fan(k)]

\* qt.insert(Polygon::new(fan))
InsertFan ==
    /\ ~crashed
    /\ \E k \in 1..Len(FanCatalogue) :
          /\ cursor \in MayPrecede(k)
          /\ LET polygon == PolygonNew(POLYGON_ID, FanCatalogue[k])
                 st == StoreInsert(store, polygon)
                 after == InnerInsert(root, polygon, st, 1)
             IN  /\ store' = st
                 /\ crashed' = Aborted(after)
                 /\ root' = IF Aborted(after) THEN root ELSE after
                 /\ call' = [op |-> "insert", polygon |-> polygon, before |-> root]
          /\ cursor' = k
    /\ POLYGON_ID' = NextCounter(POLYGON_ID)
    /\ UNCHANGED <<gone, notIndexVars>>

NextFan ==
    \/ InsertFan
    \/ RemoveFromPoint
    \/ FindInArea

SpecFan == Init /\ [][NextFan]_vars

-----------------------------------------------------------------------------
(* The node specification: index nodes as new_with_ranges and a split make them *)

\* The ends of the ranges tried.
MaxEnd == 2
RangeInputs == (-MaxEnd..MaxEnd) \X (-MaxEnd..MaxEnd)

\* A range with its start strictly below its end.
HasExtent(r) == r[1] < r[2]

InitNode ==
    /\ call = NoCall
    /\ POLYGON_ID = 1
    /\ IdleGeom /\ IdleIds /\ IdleIndex /\ IdleWorld

\* QuadTreeInner::new_with_ranges(x_range, y_range)
NewWithRanges ==
    /\ \E x_range, y_range \in RangeInputs :
          call' = [op |-> "new_with_ranges", x_range |-> x_range, y_range |-> y_range,
                   ret |-> new_with_ranges(x_range, y_range)]
    /\ UNCHANGED <<POLYGON_ID, geomVars, idVars, indexVars, worldVars>>

\* The four children a leaf with these ranges makes when it splits
\* (quadtree.rs:70-89); the leaf itself has extent on both axes.
SplitNode ==
    /\ \E x_range, y_range \in { r \in RangeInputs : HasExtent(r) } :
          call' = [op |-> "split", node |-> new_with_ranges(x_range, y_range),
                   ret |-> SplitChildren(new_with_ranges(x_range, y_range))]
    /\ UNCHANGED <<POLYGON_ID, geomVars, idVars, indexVars, worldVars>>

NextNode ==
    \/ NewWithRanges
    \/ SplitNode

SpecNode == InitNode /\ [][NextNode]_vars

-----------------------------------------------------------------------------
(* WorldBuilder *)

(***************************************************************************)
(* Lengths.  A tile is an equilateral triangle of side tile_size.  The     *)
(* model measures x in units of tile_size/4 and y in units of              *)
(* tile_size*sqrt(3)/4, in which every tile vertex, cell centre and edge   *)
(* midpoint is a pair of integers; the sign tests of contains_point do not *)
(* change under this choice of units.  A carver's direction is kept as a   *)
(* multiple of 60 degrees (0..5): the angle the code computes is rounded   *)
(* to the nearest one, so that a step of one tile_size lands on a cell     *)
(* centre again.                                                           *)
(***************************************************************************)

\* Vec2::new(self.tile_size / 2., 0.)
HalfTile == Vec2(2, 0)

\* Vec2::new(0., distance), distance = tile_size * SQRT_3_OVER_2
RowHeight == Vec2(0, 2)

\* The pseudo-random generator of the thread: the stream of its raw outputs,
\* periodic in the model, and the position in it.
Period == 2
RawOutputs == 0..5
Seeds == [1..Period -> RawOutputs]

\* A value in 0..(n - 1), and the generator afterwards.
RngDraw(r, n) == r.stream[r.next] % n
RngStep(r) == [r EXCEPT !.next = (r.next % Len(r.stream)) + 1]

\* Vec2::midpoint
VMidpoint(s, e) == Vec2((s[1] + e[1]) \div 2, (s[2] + e[2]) \div 2)

\* Mutant of new_triangle: the rotation is not applied.
new_triangle_upright(id, center, rotated) ==
    PolygonNew(id, << Vec2(center[1], center[2] + 1),
                      Vec2(center[1] - 2, center[2] - 1),
                      Vec2(center[1] + 2, center[2] - 1) >>)

\* Polygon::new_triangle(tile_size, center, rotation), rotation 0 or PI
new_triangle(id, center, rotated) ==
    LET top == center[2] + 1
        bottom == center[2] - 1
        left == center[1] - 2
        right == center[1] + 2
        model == << Vec2(center[1], top), Vec2(left, bottom), Vec2(right, bottom) >>
        turned == [i \in 1..3 |-> VSub(center, VSub(model[i], center))]
    IN  PolygonNew(id, IF rotated THEN turned ELSE model)

\* Vec2::angle_to: the angle from the vector a to the vector b, both taken
\* from the origin, as the nearest multiple of 60 degrees.  In the model's
\* units the cross product is sqrt(3) * c and the dot product is d.
AngleTo(a, b) ==
    LET c == a[1] * b[2] - a[2] * b[1]
        d == a[1] * b[1] + 3 * a[2] * b[2]
        abs == IF c < 0 THEN -c ELSE c
    IN  IF d >= 0 /\ 3 * abs <= d THEN 0
        ELSE IF d < 0 /\ 3 * abs <= -d THEN 3
        ELSE IF c > 0 THEN (IF d >= 0 THEN 1 ELSE 2)
        ELSE (IF d >= 0 THEN 5 ELSE 4)

\* Vec2::new(f32::cos(direction) * tile_size, f32::sin(direction) * tile_size)
DirectionStep(direction) ==
    CASE direction = 0 -> Vec2(4, 0)
      [] direction = 1 -> Vec2(2, 2)
      [] direction = 2 -> Vec2(-2, 2)
      [] direction = 3 -> Vec2(-4, 0)
      [] direction = 4 -> Vec2(-2, -2)
      [] direction = 5 -> Vec2(2, -2)

\* direction + FRAC_PI_3, direction - FRAC_PI_3
TurnLeft(direction) == (direction + 1) % 6
TurnRight(direction) == (direction + 5) % 6

\* The model follows a carver this far outside the region; beyond, it only
\* knows that the carver is away.
Reach == 8
Away == << "away" >>
IsAway(p) == Len(p) = 1
InSight(dims, p) ==
    /\ -(dims[1] \div 2) - Reach <= p[1] /\ p[1] <= (dims[1] \div 2) + Reach
    /\ -(dims[2] \div 2) - Reach <= p[2] /\ p[2] <= (dims[2] \div 2) + Reach

\* carver + step
CarverMove(dims, carver, direction) ==
    IF IsAway(carver) THEN Away
    ELSE LET p == VAdd(carver, DirectionStep(direction))
         IN  IF InSight(dims, p) THEN p ELSE Away

\* WorldBuilder::find_polygon: the index of the first tile that contains the
\* point, or 0 for None.
find_polygon(tiles, point) ==
    IF IsAway(point) THEN 0
    ELSE LET hits == {idx \in 1..Len(tiles) : contains_point(tiles[idx], point)}
         IN  IF hits = {} THEN 0
             ELSE CHOOSE idx \in hits : \A other \in hits : idx <= other

\* Mutant of swap_remove: the tile and every tile after it are dropped.
truncate(tiles, idx) == SubSeq(tiles, 1, idx - 1)

\* Vec::swap_remove
swap_remove(list, idx) ==
    [i \in 1..(Len(list) - 1) |-> IF i = idx THEN list[Len(list)] ELSE list[i]]

RECURSIVE ShuffleFrom(_, _, _)
\* SliceRandom::shuffle: position i takes an element drawn from 1..i, from
\* the last position down.
ShuffleFrom(list, r, i) ==
    IF i <= 1 THEN [list |-> list, rng |-> r]
    ELSE LET j == RngDraw(r, i) + 1
             swapped == [list EXCEPT ![i] = list[j], ![j] = list[i]]
         IN  ShuffleFrom(swapped, RngStep(r), i - 1)

shuffle(list, r) == ShuffleFrom(list, r, Len(list))

\* Mutants of RatioAboveHalf: other thresholds, and >= for >.
RatioAboveThreeQuarters(count, start) == 4 * count > 3 * start
RatioAboveZero(count, start) == count > 0
RatioAtLeastHalf(count, start) == 2 * count >= start

\* usize as f32 / usize as f32 > 0.5, exact on the counts of the model
RatioAboveHalf(count, start) == 2 * count > start

\* world.rs:129  possible_carvers[0..10]
NumCarvers == 10

\* The regions a world is built for: <<dimensions.x, dimensions.y>>.
Regions == { <<4, 2>>, <<8, 4>>, <<14, 4>>, <<50, 0>> }

GeneratingGrid == "GeneratingGrid"
Carving == "Carving"
NotCalled == [kind |-> "NotCalled"]
Running == [kind |-> "Running"]
\* Mutant of World: the tiles are not handed over.
WorldWithoutTiles(tiles) == [tiles |-> << >>]

\* World { tiles }
World(tiles) == [tiles |-> tiles]

\* WorldBuilder::new(tile_size, dimensions), on a thread whose generator is
\* in any of its states
InitWorld ==
    /\ dimensions \in Regions
    /\ generated_tiles = << >>
    /\ queue = << << Vec2(-(dimensions[1] \div 2), dimensions[2] \div 2), FALSE, TRUE >> >>
    /\ possible_carvers = << >>
    /\ carvers = << >>
    /\ stage = GeneratingGrid
    /\ start_num_tiles = 0
    /\ \E seed \in Seeds : rng = [stream |-> seed, next |-> 1]
    /\ at = "idle"
    /\ result = NotCalled
    /\ worked = FALSE
    /\ panicked = FALSE
    /\ POLYGON_ID = 1
    /\ call = NoCall
    /\ IdleGeom /\ IdleIds /\ IdleIndex

\* The fields of the builder, with the generator and the identity counter it
\* draws on, as one value.
Builder ==
    [dimensions |-> dimensions, generated_tiles |-> generated_tiles,
     queue |-> queue, possible_carvers |-> possible_carvers, carvers |-> carvers,
     stage |-> stage, start_num_tiles |-> start_num_tiles,
     rng |-> rng, id |-> POLYGON_ID, panicked |-> panicked]

\* The builder is b after the step.
Becomes(b) ==
    /\ dimensions' = b.dimensions
    /\ generated_tiles' = b.generated_tiles
    /\ queue' = b.queue
    /\ possible_carvers' = b.possible_carvers
    /\ carvers' = b.carvers
    /\ stage' = b.stage
    /\ start_num_tiles' = b.start_num_tiles
    /\ rng' = b.rng
    /\ POLYGON_ID' = b.id
    /\ panicked' = b.panicked

\* Mutant of CrossesRight: >= for >.
CrossesRightEarly(b, next_center) == next_center[1] >= b.dimensions[1] \div 2

\* world.rs:81  next_center.x > self.dimensions.x / 2.
CrossesRight(b, next_center) == next_center[1] > b.dimensions[1] \div 2

\* WorldBuilder::process_queue
process_queue(b) ==
    IF b.queue = << >> THEN b
    ELSE
        LET cell == Head(b.queue)
            center == cell[1]
            do_rotation == cell[2]
            next_row_do_rotation == cell[3]
            generated == new_triangle(b.id, center, do_rotation)
            midpoints == [i \in 1..3 |-> VMidpoint(generated.edges[i][1],
                                                   generated.edges[i][2])]
            midpoint == midpoints[RngDraw(b.rng, 3) + 1]
            direction == AngleTo(center, midpoint)
            across == VAdd(center, HalfTile)
            below == Vec2(-(b.dimensions[1] \div 2), VSub(center, RowHeight)[2])
            popped == Tail(b.queue)
            pushed ==
                IF CrossesRight(b, across)
                THEN IF below[2] < -(b.dimensions[2] \div 2)
                     THEN popped
                     ELSE Append(popped,
                             << below, next_row_do_rotation, ~next_row_do_rotation >>)
                ELSE Append(popped, << across, ~do_rotation, next_row_do_rotation >>)
        IN  [b EXCEPT !.queue = pushed,
                      !.possible_carvers = Append(@, << center, direction >>),
                      !.generated_tiles = Append(@, generated),
                      !.rng = RngStep(@),
                      !.id = NextCounter(@)]

\* Mutant of StageAfterGrid: the stage is left as it is.
StageStays == GeneratingGrid

\* world.rs:130  self.stage = BuildStage::Carving
StageAfterGrid == Carving

\* One pass of the loop in the stage GeneratingGrid (world.rs:123-132).  The
\* slice [0..10] panics on a list shorter than that, after the two
\* assignments before it.
GridPass(b) ==
    LET p == process_queue(b)
        shuffled == shuffle(p.possible_carvers, p.rng)
        counted == [p EXCEPT !.start_num_tiles = Len(p.generated_tiles),
                             !.possible_carvers = shuffled.list,
                             !.rng = shuffled.rng]
    IN  IF p.queue # << >> THEN p
        ELSE IF Len(counted.possible_carvers) < NumCarvers
             THEN [counted EXCEPT !.panicked = TRUE]
             ELSE [counted EXCEPT
                      !.carvers = SubSeq(counted.possible_carvers, 1, NumCarvers),
                      !.stage = StageAfterGrid]

\* One pass of the loop in the stage Carving with a carver in the queue
\* (world.rs:139-154).
CarvePass(b) ==
    LET carver == Head(b.carvers)[1]
        direction == Head(b.carvers)[2]
        idx == find_polygon(b.generated_tiles, carver)
        tiles == IF idx # 0 THEN swap_remove(b.generated_tiles, idx)
                 ELSE b.generated_tiles
        next_carver == CarverMove(b.dimensions, carver, direction)
        next_direction == IF RngDraw(b.rng, 2) = 1 THEN TurnLeft(direction)
                          ELSE TurnRight(direction)
    IN  IF RatioAboveHalf(Len(tiles), b.start_num_tiles)
        THEN [b EXCEPT !.generated_tiles = tiles,
                       !.carvers = Append(Tail(@), << next_carver, next_direction >>),
                       !.rng = RngStep(@)]
        ELSE [b EXCEPT !.generated_tiles = tiles,
                       !.carvers = Tail(@)]

\* let start = Instant::now();
Generate ==
    /\ at = "idle"
    /\ ~panicked
    /\ at' = "loop"
    /\ worked' = FALSE
    /\ result' = Running
    /\ UNCHANGED <<POLYGON_ID, builderVars, rng, panicked, notWorldVars>>

GridUnit ==
    /\ at = "loop"
    /\ stage = GeneratingGrid
    /\ \E b \in {GridPass(Builder)} : Becomes(b)
    /\ at' = IF panicked' THEN "panic" ELSE "check"
    /\ worked' = TRUE
    /\ UNCHANGED <<result, notWorldVars>>

CarveUnit ==
    /\ at = "loop"
    /\ stage = Carving
    /\ carvers # << >>
    /\ \E b \in {CarvePass(Builder)} : Becomes(b)
    /\ at' = "check"
    /\ worked' = TRUE
    /\ UNCHANGED <<result, notWorldVars>>

\* Mutant of ReturnWorld: the tile list is moved out of the builder, not
\* cloned.
ReturnWorldTakingTiles ==
    /\ at = "loop"
    /\ stage = Carving
    /\ carvers = << >>
    /\ result' = Some(World(generated_tiles))
    /\ generated_tiles' = << >>
    /\ at' = "idle"
    /\ UNCHANGED <<POLYGON_ID, dimensions, queue, possible_carvers, carvers,
                   stage, start_num_tiles, rng, worked, panicked, notWorldVars>>

\* return Some(World { tiles: self.generated_tiles.clone() })  (world.rs:156)
ReturnWorld ==
    /\ at = "loop"
    /\ stage = Carving
    /\ carvers = << >>
    /\ result' = Some(World(generated_tiles))
    /\ at' = "idle"
    /\ UNCHANGED <<POLYGON_ID, builderVars, rng, worked, panicked, notWorldVars>>

\* Mutant of ReturnNone: the call yields between pop_front and push_back.
ReturnNoneLosingCarver ==
    /\ at = "check"
    /\ result' = None
    /\ at' = "idle"
    /\ carvers' = IF carvers = << >> THEN carvers ELSE Tail(carvers)
    /\ UNCHANGED <<POLYGON_ID, dimensions, generated_tiles, queue, possible_carvers,
                   stage, start_num_tiles, rng, worked, panicked, notWorldVars>>

\* Mutant of ReturnNone: the elapsed time is checked before the work.
ReturnNoneBeforeWork ==
    /\ at \in {"loop", "check"}
    /\ result' = None
    /\ at' = "idle"
    /\ UNCHANGED <<POLYGON_ID, builderVars, rng, worked, panicked, notWorldVars>>

\* elapsed > allowed_time: return None  (world.rs:163-166)
ReturnNone ==
    /\ at = "check"
    /\ result' = None
    /\ at' = "idle"
    /\ UNCHANGED <<POLYGON_ID, builderVars, rng, worked, panicked, notWorldVars>>

\* elapsed <= allowed_time: the loop goes round
LoopAgain ==
    /\ at = "check"
    /\ at' = "loop"
    /\ UNCHANGED <<POLYGON_ID, builderVars, rng, result, worked, panicked, notWorldVars>>

NextWorld ==
    \/ Generate
    \/ GridUnit
    \/ CarveUnit
    \/ ReturnWorld
    \/ ReturnNone
    \/ LoopAgain

SpecWorld == InitWorld /\ [][NextWorld]_vars

\* Control moves on: every step of NextWorld moves it, and one is possible
\* unless generate has panicked.
ControlMoves ==
    /\ ~panicked
    /\ at' \in {"idle", "loop", "check", "panic"}
    /\ at' # at

\* The caller goes on calling generate, and a call that has started runs on.
SpecWorldFair == SpecWorld /\ WF_at(ControlMoves)

-----------------------------------------------------------------------------
(* Properties of QuadTree (specification Spec) *)

RECURSIVE NodeAt(_, _)
\* The node reached from a node by a path of child indices.
NodeAt(node, path) ==
    IF path = <<>> THEN node
    ELSE NodeAt(node.children[Head(path)], Tail(path))

RECURSIVE LeafPaths(_)
LeafPaths(node) ==
    IF node.body = "Elements" THEN { <<>> }
    ELSE UNION { { <<c>> \o p : p \in LeafPaths(node.children[c]) } : c \in 1..4 }

Leaves(node) == { NodeAt(node, p) : p \in LeafPaths(node) }

\* The leaves a query with this area reads.
LeavesRead(node, area) == { leaf \in Leaves(node) : AnyVertexIn(area, leaf) }

\* The polygon has a vertex in a leaf rectangle that holds a vertex of the area.
SharesLeaf(node, polygon, area) ==
    \E leaf \in LeavesRead(node, area) : AnyVertexIn(polygon, leaf)

Colliding(st, area) == { id \in DOMAIN st : collides_with(st[id], area) }

RetIds(ret) == { ret[i].id : i \in 1..Len(ret) }

NoRepeats(ret) ==
    \A i, j \in 1..Len(ret) : i # j => ret[i].id # ret[j].id /\ ret[i] # ret[j]

\* The result is exactly the stored polygons of these ids, each once.
ReturnsExactly(ret, ids) ==
    /\ RetIds(ret) = ids
    /\ NoRepeats(ret)
    /\ \A i \in 1..Len(ret) : ret[i] = store[ret[i].id]

\* No two stored polygons touch.
PairwiseApart(st) ==
    \A i, j \in DOMAIN st :
        i # j => ~RegionsMeet(st[i].vertices, st[j].vertices)

\* C1, as stated: find_in_area returns exactly the K stored polygons that
\* collide with the query polygon, each exactly once, whatever splits the
\* insertions caused.
C1_FindsAllColliding ==
    call.op = "find_in_area" =>
        ReturnsExactly(call.ret, Colliding(store, call.area))

\* C1, amended: find_in_area returns, each exactly once, exactly the stored
\* polygons that collide with the query polygon and have a vertex in a leaf
\* rectangle that also holds a vertex of the query polygon; while the root is
\* a leaf these are all K colliding polygons.
C1_FindsCollidingInSharedLeaves ==
    call.op = "find_in_area" =>
        /\ ReturnsExactly(call.ret,
               { id \in Colliding(store, call.area) :
                     SharesLeaf(root, store[id], call.area) })
        /\ root.body = "Elements" =>
               ReturnsExactly(call.ret, Colliding(store, call.area))

\* A query after a split that collides with two polygons and returns both.
C1_Witness ==
    /\ call.op = "find_in_area"
    /\ root.body = "Children"
    /\ Cardinality(Colliding(store, call.area)) >= 2
    /\ RetIds(call.ret) = Colliding(store, call.area)

\* An insert into a leaf that holds MAX_TREE_ENTRIES ids and accepts the
\* polygon leaves an internal node with four children in its place.
FullLeafSplits ==
    (call.op = "insert" /\ ~crashed) =>
        \A path \in LeafPaths(call.before) :
            LET leaf == NodeAt(call.before, path)
                now == NodeAt(root, path)
            IN  (Len(leaf.elements) >= MAX_TREE_ENTRIES
                   /\ AnyVertexIn(call.polygon, leaf))
                => /\ now.body = "Children"
                   /\ Len(now.children) = 4
                   /\ now.x_range = leaf.x_range
                   /\ now.y_range = leaf.y_range

\* The state of a query, after a split, on polygons no two of which touch,
\* with an area that collides with exactly one of them.
QueryOfOne ==
    /\ call.op = "find_in_area"
    /\ root.body = "Children"
    /\ PairwiseApart(store)
    /\ Cardinality(Colliding(store, call.area)) = 1

TheOne == store[CHOOSE id \in Colliding(store, call.area) : TRUE]

\* C2, as stated: more than MAX_TREE_ENTRIES pairwise non-overlapping polygons
\* in one node's rectangle turn the leaf into an internal node with four
\* children, and afterwards a query that overlaps exactly one inserted polygon
\* returns that polygon exactly once.
C2_SplitKeepsEveryPolygonFindable ==
    /\ FullLeafSplits
    /\ QueryOfOne => call.ret = << TheOne >>

\* C2, amended: the leaf becomes an internal node with four children, and
\* afterwards a query that overlaps exactly one inserted polygon returns that
\* polygon exactly once provided the query polygon has a vertex in a leaf
\* rectangle that also holds a vertex of that polygon (and returns nothing
\* otherwise).
C2_SplitKeepsSharedLeafPolygonsFindable ==
    /\ FullLeafSplits
    /\ QueryOfOne =>
          call.ret = IF SharesLeaf(root, TheOne, call.area)
                     THEN << TheOne >> ELSE << >>

\* A query after a split that overlaps one polygon and returns it.
C2_Witness ==
    /\ QueryOfOne
    /\ Cardinality(DOMAIN store) > MAX_TREE_ENTRIES
    /\ call.ret = << TheOne >>

\* The ids listed in the leaves of a subtree.
RECURSIVE IdsUnder(_)
IdsUnder(node) ==
    IF node.body = "Elements"
    THEN { node.elements[i] : i \in 1..Len(node.elements) }
    ELSE UNION { IdsUnder(node.children[c]) : c \in 1..4 }

\* The rectangle of a node.
Rect(node) == << node.x_range, node.y_range >>

\* C22: after every completed insert no leaf holds more than
\* MAX_TREE_ENTRIES ids: a leaf that held MAX_TREE_ENTRIES and accepted the
\* polygon has become an internal node whose four children are the quadrants
\* of its rectangle, split at the midpoints of both ranges, and each id it
\* held that resolves in the master mapping, and the new one, has been
\* offered to all four children: it is listed under exactly the children
\* that hold one of its polygon's vertices.
C22_NoLeafExceedsEntries ==
    /\ \A leaf \in Leaves(root) : Len(leaf.elements) <= MAX_TREE_ENTRIES
    /\ (call.op = "insert" /\ ~crashed) =>
          \A path \in LeafPaths(call.before) :
              LET leaf == NodeAt(call.before, path)
                  now == NodeAt(root, path)
                  held == Append(leaf.elements, call.polygon.id)
                  quadrants == SplitChildren(leaf)
              IN  (Len(leaf.elements) = MAX_TREE_ENTRIES
                     /\ AnyVertexIn(call.polygon, leaf))
                  => /\ now.body = "Children"
                     /\ Rect(now) = Rect(leaf)
                     /\ \A c \in 1..4 :
                           /\ Rect(now.children[c]) = Rect(quadrants[c])
                           /\ IdsUnder(now.children[c]) =
                                 { id \in { held[i] : i \in 1..Len(held) } :
                                       /\ id \in DOMAIN store
                                       /\ AnyVertexIn(store[id], quadrants[c]) }

\* An insert has just split the root, and an id the root held is now listed
\* under more than one of its children.
C22_Witness ==
    /\ call.op = "insert"
    /\ ~crashed
    /\ call.before.body = "Elements"
    /\ Len(call.before.elements) = MAX_TREE_ENTRIES
    /\ root.body = "Children"
    /\ \E i \in 1..Len(call.before.elements) :
          Cardinality({ c \in 1..4 :
              call.before.elements[i] \in IdsUnder(root.children[c]) }) >= 2

\* The ids a leaf lists.
LeafIds(leaf) == { leaf.elements[i] : i \in 1..Len(leaf.elements) }

\* C23, as stated: whatever was inserted and removed, a polygon value whose
\* id is already stored included, no leaf lists the same id more than once.
C23_NoIdTwiceInALeaf ==
    \A leaf \in Leaves(root) :
        \A i, j \in 1..Len(leaf.elements) :
            i # j => leaf.elements[i] # leaf.elements[j]

\* The polygons of a store that contains_point finds the point in.
Holders(st, point) == { id \in DOMAIN st : contains_point(st[id], point) }

\* C24, as stated: after remove_from_point(p) every polygon that contained p
\* is absent from the master mapping and from every leaf, and each id a leaf
\* still holds resolves in the master mapping.
C24_NoLeafKeepsRemovedId ==
    call.op = "remove_from_point" =>
        /\ Holders(call.before, call.point) \cap DOMAIN store = {}
        /\ \A leaf \in Leaves(root) :
              /\ LeafIds(leaf) \cap Holders(call.before, call.point) = {}
              /\ LeafIds(leaf) \subseteq DOMAIN store

\* C24, amended: after remove_from_point(p) every polygon that contained p
\* is absent from the master mapping and from every leaf whose rectangle
\* contains p, and each id such a leaf still holds resolves in the master
\* mapping; a leaf whose rectangle does not contain p may still list a
\* removed polygon.
C24_LeavesAtPointKeepNoRemovedId ==
    call.op = "remove_from_point" =>
        /\ Holders(call.before, call.point) \cap DOMAIN store = {}
        /\ DOMAIN store = DOMAIN call.before \ Holders(call.before, call.point)
        /\ \A leaf \in Leaves(root) :
              NodeContainsPoint(leaf, call.point) =>
                  /\ LeafIds(leaf) \cap Holders(call.before, call.point) = {}
                  /\ LeafIds(leaf) \subseteq DOMAIN store

\* A removal after a split: the polygon removed was listed in the leaf at
\* the point and in another leaf, which lists it still.
C24_Witness ==
    /\ call.op = "remove_from_point"
    /\ root.body = "Children"
    /\ \E id \in Holders(call.before, call.point) :
          /\ \E leaf \in Leaves(root) :
                ~NodeContainsPoint(leaf, call.point) /\ id \in LeafIds(leaf)
          /\ \E leaf \in Leaves(root) :
                /\ NodeContainsPoint(leaf, call.point)
                /\ AnyVertexIn(call.before[id], leaf)

RECURSIVE NodePaths(_)
\* The paths of all the nodes of a tree.
NodePaths(node) ==
    IF node.body = "Elements" THEN { <<>> }
    ELSE { <<>> } \cup
         UNION { { <<c>> \o p : p \in NodePaths(node.children[c]) } : c \in 1..4 }

C3_RemovedStaysRemoved ==
    /\ call.op = "remove_from_point" =>
          LET inside == HoldersInside(call.before, call.point)
              touching == HoldersTouching(call.before, call.point)
          IN  (Cardinality(touching) = 1 /\ inside = touching)
              => /\ len = Cardinality(DOMAIN call.before) - 1
                 /\ inside \cap DOMAIN store = {}
    /\ call.op = "find_in_area" => RetIds(call.ret) \cap gone = {}

\* A query that reads a leaf which still lists the id of a removed polygon,
\* and returns other polygons.
C3_Witness ==
    /\ call.op = "find_in_area"
    /\ call.ret # << >>
    /\ \E leaf \in LeavesRead(root, call.area) :
          \E i \in 1..Len(leaf.elements) : leaf.elements[i] \in gone

\* C4: every polygon find_in_area returns is in the master mapping, collides
\* with the area and appears once in the result; the result is empty when no
\* stored polygon collides with the area; and the query aborts nothing.
C4_FoundAreStoredCollidingOnce ==
    call.op = "find_in_area" =>
        /\ \A i \in 1..Len(call.ret) :
              /\ call.ret[i].id \in DOMAIN store
              /\ store[call.ret[i].id] = call.ret[i]
              /\ collides_with(call.ret[i], call.area)
        /\ NoRepeats(call.ret)
        /\ Colliding(store, call.area) = {} => call.ret = << >>
        /\ ~crashed

\* A query that returns a polygon which two of the leaves it reads list.
C4_Witness ==
    /\ call.op = "find_in_area"
    /\ \E i \in 1..Len(call.ret) :
          Cardinality({ leaf \in LeavesRead(root, call.area) :
              \E e \in 1..Len(leaf.elements) :
                  leaf.elements[e] = call.ret[i].id }) >= 2

-----------------------------------------------------------------------------
(* Properties of Polygon (specification SpecGeom) *)

SqLen(v) == v[1] * v[1] + v[2] * v[2]

\* The bounding boxes of two rings have a common interior point.
BoxesOverlap(vs, ws) ==
    \A c \in 1..2 :
        /\ \E i \in 1..Len(vs), j \in 1..Len(ws) : vs[i][c] < ws[j][c]
        /\ \E i \in 1..Len(vs), j \in 1..Len(ws) : ws[j][c] < vs[i][c]

\* The smallest projection-interval overlap over all the tested axes.
MinOverlap(a, b) ==
    LET axes == AxisList(a, b)
    IN  CHOOSE m \in {CurrentDisplacement(axes[i]) : i \in 1..Len(axes)} :
            \A j \in 1..Len(axes) : m <= CurrentDisplacement(axes[j])

\* C5: for two convex polygons whose closed regions have no common point,
\* collision_displacement returns None (not Some, not a panic) and
\* collides_with returns false.
C5_DisjointGivesNone ==
    (call.op = "collision_displacement"
        /\ ~RegionsMeet(self.vertices, call.other.vertices))
    => (call.ret = None /\ ~collides_with(self, call.other))

\* C5 witness: a disjoint pair whose bounding boxes overlap, so that only a
\* slanted edge's axis separates them, answered None.
C5_Witness ==
    /\ call.op = "collision_displacement"
    /\ ~RegionsMeet(self.vertices, call.other.vertices)
    /\ BoxesOverlap(self.vertices, call.other.vertices)
    /\ call.ret = None

\* C6: for two polygons with identical vertices, the copy translated by the
\* vector collision_displacement returned no longer collides with the other.
C6_DisplacementSeparates ==
    call.op = "separate" => ~call.collides

\* C7: for two polygons with identical vertices and non-zero area,
\* collision_displacement returns a non-zero vector whose length equals the
\* smallest projection-interval overlap over all tested axes.  On the grid of
\* denominator den the vector is ret.v/den^3 and the overlap is
\* MinOverlap/den^2; the two lengths are compared by their squares.
C7_LengthIsMinOverlap ==
    (call.op = "collision_displacement"
        /\ call.other.vertices = self.vertices)
    => /\ call.ret.kind = "Some"
       /\ call.ret.v # Vec2(0, 0)
       /\ SqLen(call.ret.v)
            = MinOverlap(self, call.other) * MinOverlap(self, call.other)
                * call.den * call.den

RECURSIVE Displacements(_, _)
\* The overlaps the loop measures on the axes from axis i on, in order.
Displacements(axes, i) ==
    IF i > Len(axes) THEN << >>
    ELSE << CurrentDisplacement(axes[i]) >> \o Displacements(axes, i + 1)

\* The first place of a smallest number in a list.
FirstMinimum(list) ==
    CHOOSE i \in 1..Len(list) :
        \A j \in 1..Len(list) :
            list[i] < list[j] \/ (list[i] = list[j] /\ i <= j)

\* C27: when several tested axes have the same smallest overlap, the vector
\* returned is the one of the first of them in the order self's edges, then
\* other's edges: a later axis replaces the current one only with a strictly
\* smaller overlap.  The overlap is the one the loop measures, on the
\* perpendicular of the edge as it is.
C27_FirstMinimalAxisWins ==
    (call.op = "collision_displacement" /\ call.ret.kind = "Some") =>
        LET axes == AxisList(self, call.other)
            overlaps == Displacements(axes, 1)
            first == FirstMinimum(overlaps)
        IN  call.ret.v = VScale(overlaps[first], axes[first].axis)

\* A collision in which two axes tie for the smallest overlap and would give
\* different vectors.
C27_Witness ==
    /\ call.op = "collision_displacement"
    /\ call.ret.kind = "Some"
    /\ LET axes == AxisList(self, call.other)
           overlaps == Displacements(axes, 1)
           first == FirstMinimum(overlaps)
       IN  /\ overlaps[first] > 0
           /\ \E j \in (first + 1)..Len(overlaps) :
                 /\ overlaps[j] = overlaps[first]
                 /\ axes[j].axis # axes[first].axis

\* The two projection intervals on a tested axis have one value in common /
\* have a value in common.
MeetAtOneValue(e) == e.lhs.max = e.rhs.min \/ e.rhs.max = e.lhs.min
HaveCommonValue(e) == e.rhs.min <= e.lhs.max /\ e.lhs.min <= e.rhs.max

\* Two polygons that only touch: on some tested axis their intervals meet at
\* a single value, and on every tested axis they have a value in common.
OnlyTouch(a, b) ==
    LET axes == AxisList(a, b)
        tested == { axes[i] : i \in 1..(Len(a.edges) + Len(b.edges)) }
    IN  /\ \A e \in tested : HaveCommonValue(e)
        /\ \E e \in tested : MeetAtOneValue(e)

\* The number of places where a vertex of one ring is a vertex of the other.
SharedVertices(vs, ws) ==
    Cardinality({ p \in (1..Len(vs)) \X (1..Len(ws)) : vs[p[1]] = ws[p[2]] })

\* C31: for two convex polygons that only touch, collision_displacement
\* returns Some of the zero vector (not None) and collides_with is true; and
\* for every pair collides_with answers the same with the two polygons
\* exchanged.
C31_TouchingCollidesWithZeroVector ==
    call.op = "collision_displacement" =>
        /\ collides_with(call.other, self) = (call.ret.kind = "Some")
        /\ OnlyTouch(self, call.other) =>
              /\ call.ret = Some(Vec2(0, 0))
              /\ collides_with(self, call.other)
              /\ collision_displacement(call.other, self) = Some(Vec2(0, 0))

\* A touching pair with exactly one corner in common, answered with the zero
\* vector.
C31_Witness ==
    /\ call.op = "collision_displacement"
    /\ OnlyTouch(self, call.other)
    /\ SharedVertices(self.vertices, call.other.vertices) = 1
    /\ call.ret = Some(Vec2(0, 0))

\* C8: for a convex, consistently wound polygon with at least 3 vertices,
\* contains_point is true for every point strictly inside and false for
\* every point strictly outside.
C8_ContainsPointDecides ==
    call.op = "contains_point"
    => /\ StrictlyInside(call.point, self.vertices) => call.ret = TRUE
       /\ StrictlyOutside(call.point, self.vertices) => call.ret = FALSE

\* C8 witness: a point strictly outside a quadrilateral, on the line through
\* its first edge (the first cross product is a zero), answered false.
C8_Witness ==
    /\ call.op = "contains_point"
    /\ Len(self.vertices) = 4
    /\ StrictlyOutside(call.point, self.vertices)
    /\ Orient(self.vertices[1], self.vertices[2], call.point) = 0
    /\ call.ret = FALSE

\* C8 second witness state: a point strictly inside, answered true.
C8_InsideReached ==
    /\ call.op = "contains_point"
    /\ StrictlyInside(call.point, self.vertices)
    /\ call.ret = TRUE

-----------------------------------------------------------------------------
(* Properties of Polygon identity (specification SpecIds) *)

\* C9: two Polygon values are equal, and feed the same data to the hasher,
\* exactly when their ids are equal, which is exactly when they stem from
\* the same Polygon::new call: a clone equals its original, and the values
\* of two separate new calls differ even on the same vertex list.
C9_EqualIffSameIdentity ==
    \A v, w \in pool :
        /\ PolyEq(v.poly, w.poly) <=> (v.born = w.born)
        /\ PolyEq(v.poly, w.poly) <=> (PolyHash(v.poly) = PolyHash(w.poly))
        /\ PolyEq(v.poly, w.poly) <=> (v.poly.id = w.poly.id)

\* C9 witness: a clone next to its original, and a second polygon built by
\* another new call from the same vertex list.
C9_Witness ==
    \E v, w, x \in pool :
        /\ v.copy # w.copy /\ v.born = w.born
        /\ PolyEq(v.poly, w.poly)
        /\ x.born # v.born
        /\ x.poly.vertices = v.poly.vertices
        /\ ~PolyEq(x.poly, v.poly)

\* C10: the n-th increment of the counter hands out the id n: ids start at
\* 1, grow strictly in the order of the increments, and no two calls,
\* finished or still running, hold the same id.
C10_FreshIncreasingIds ==
    /\ \A n \in 1..Len(issued) : issued[n] = n
    /\ \A m, n \in 1..Len(issued) : m < n => issued[m] < issued[n]
    /\ \A t, u \in Threads :
          (t # u /\ pc[t] = "fetched" /\ pc[u] = "fetched") => local[t].id # local[u].id
    /\ \A t \in Threads, v \in pool :
          pc[t] = "fetched" /\ local[t].id = v.poly.id => local[t].born = v.born
    /\ \A v, w \in pool : v.poly.id = w.poly.id => v.born = w.born

\* C10 witness: two threads inside Polygon::new at once, both past their
\* fetch_add, after an earlier call has completed.
C10_Witness ==
    /\ \A t \in Threads : pc[t] = "fetched"
    /\ pool # {}
    /\ Len(issued) >= 3

-----------------------------------------------------------------------------
(* Properties of WorldBuilder (specifications SpecWorld, SpecWorldFair) *)

\* The number of cells of the grid of a region: the centres run from the left
\* edge in steps of half a tile while they are not right of the right edge,
\* and from the top edge in steps of a row while they are not below the
\* bottom edge.
GridCount(dims) == ((dims[1] \div 2) + 1) * ((dims[2] \div 2) + 1)

\* The pass of the loop the builder is due for (none once it is finished).
LoopPass(b) ==
    IF b.stage = GeneratingGrid THEN GridPass(b)
    ELSE IF b.carvers # << >> THEN CarvePass(b)
    ELSE b

\* C11: generate returns Some(World) only from a pass in which the stage is
\* Carving and the carver queue is empty, the World then holds exactly the
\* tiles in generated_tiles, and every other return is None.
C11_WorldOnlyWhenCarversAreGone ==
    /\ result.kind = "Some" =>
          /\ stage = Carving
          /\ carvers = << >>
          /\ result.v.tiles = generated_tiles
    /\ (at = "idle" /\ result # NotCalled) =>
          /\ result.kind \in {"Some", "None"}
          /\ (stage # Carving \/ carvers # << >>) => result = None

\* A finished world with tiles in it.
C11_Witness ==
    /\ result.kind = "Some"
    /\ result.v.tiles # << >>
    /\ Len(result.v.tiles) < start_num_tiles

\* C12: a call of generate returns None only after it has completed a unit
\* of work, whatever the time budget: control reaches the elapsed-time check
\* only through a unit of work.
C12_WorkBeforeYield ==
    /\ at = "check" => worked
    /\ (at = "idle" /\ result = None) => worked

\* A call that returned None after work, in each stage.
C12_Witness ==
    /\ at = "idle"
    /\ result = None
    /\ worked
    /\ stage = Carving
    /\ Len(generated_tiles) < start_num_tiles

\* C13: the builder moves only by whole passes of the loop, each determined
\* by the builder and the generator alone: a return of None, the next call
\* and the elapsed-time check leave the builder as the last pass left it, so
\* the sequence of builder states and the final World do not depend on how
\* the passes are spread over calls.
C13_SlicingLeavesNoTrace ==
    [][ /\ (at # "loop" \/ at' = "idle") => Builder' = Builder
        /\ (at = "loop" /\ at' # "idle") => Builder' = LoopPass(Builder)
        /\ result'.kind = "Some" => result'.v = World(generated_tiles) ]_vars

\* The builder was left in the middle of carving and has been called again.
C13_Witness ==
    /\ at = "loop"
    /\ ~worked
    /\ stage = Carving
    /\ carvers # << >>
    /\ Len(generated_tiles) < start_num_tiles

\* C14: when generate returns the finished World the surviving tiles are at
\* most half of start_num_tiles (and at least none).
C14_AtMostHalfSurvive ==
    result.kind = "Some" =>
        /\ 0 <= Len(result.v.tiles)
        /\ 2 * Len(result.v.tiles) <= start_num_tiles

\* A finished world after carvers were sent on from their first tiles.
C14_Witness ==
    /\ result.kind = "Some"
    /\ start_num_tiles > 2 * NumCarvers
    /\ 2 * Len(result.v.tiles) <= start_num_tiles

\* C15, as stated: carving started with 10 carvers ends with between 0.5*T
\* and T tiles, T the tile count at the end of the grid stage.
C15_AtLeastHalfSurvive ==
    result.kind = "Some" =>
        /\ 2 * Len(result.v.tiles) >= start_num_tiles
        /\ Len(result.v.tiles) <= start_num_tiles

\* C15, amended: carving started with 10 carvers ends with at most 0.5*T
\* tiles and at least floor(0.5*T) - 9: the carver that brings the count down
\* to floor(0.5*T) is dropped, and each of the at most 9 carvers still queued
\* removes at most one more tile before it is dropped too.
C15_HalfLessUpToNine ==
    result.kind = "Some" =>
        /\ 2 * Len(result.v.tiles) <= start_num_tiles
        /\ Len(result.v.tiles) >= (start_num_tiles \div 2) - (NumCarvers - 1)

\* A finished world with fewer than half of the tiles, but not 9 fewer.
C15_Witness ==
    /\ result.kind = "Some"
    /\ 2 * Len(result.v.tiles) < start_num_tiles - 1
    /\ Len(result.v.tiles) > (start_num_tiles \div 2) - (NumCarvers - 1)

\* C16: the tile count at the end of the grid stage is fixed by the region
\* and the tile size: it is the number of cells of the grid, whatever the
\* generator draws and however the calls are sliced.
C16_GridCountIsFixed ==
    /\ start_num_tiles \in {0, GridCount(dimensions)}
    /\ stage = Carving => start_num_tiles = GridCount(dimensions)
    /\ stage = GeneratingGrid => Len(generated_tiles) <= GridCount(dimensions)

\* The grid stage done, under a generator whose draws differ.
C16_Witness ==
    /\ stage = Carving
    /\ start_num_tiles = GridCount(dimensions)
    /\ rng.stream[1] % 3 # rng.stream[2] % 3

\* C17, as stated (a panic of the grid stage set aside): when generate is
\* called again and again, each call doing a unit of work, it eventually
\* returns the finished World, whatever the carvers' turns.
C17_EventuallyWorld == <>(result.kind = "Some" \/ panicked)

\* C18: the stage only moves forward.  It starts as GeneratingGrid; it
\* changes only from GeneratingGrid to Carving, and only in the unit of work
\* that leaves the cell queue empty (every such unit that runs to its end
\* makes the change); and no tile is added once the stage is Carving.
C18_StageOnlyMovesForward ==
    /\ stage = GeneratingGrid
    /\ [][ /\ stage' # stage =>
                /\ stage = GeneratingGrid /\ stage' = Carving
                /\ at = "loop" /\ at' = "check"
                /\ queue # << >> /\ queue' = << >>
           /\ (queue # << >> /\ queue' = << >> /\ ~panicked') => stage' = Carving
           /\ stage = Carving =>
                /\ stage' = Carving
                /\ Len(generated_tiles') <= Len(generated_tiles)
                /\ \A i \in DOMAIN generated_tiles' :
                       \E j \in DOMAIN generated_tiles :
                           generated_tiles'[i] = generated_tiles[j] ]_vars

\* The unit of work that emptied the cell queue has just changed the stage.
C18_Witness ==
    /\ stage = Carving
    /\ at = "check"
    /\ queue = << >>
    /\ Len(generated_tiles) = start_num_tiles
    /\ Len(carvers) = NumCarvers

\* C19, as stated: the unit of work that empties the cell queue sets
\* start_num_tiles to the number of generated tiles, makes the first 10
\* entries of the shuffled possible-carver list the carver queue and makes
\* the stage Carving, without failure, whatever the number of tiles.
C19_GridStageCompletes ==
    [][ (queue # << >> /\ queue' = << >>) =>
            /\ ~panicked'
            /\ stage' = Carving
            /\ start_num_tiles' = Len(generated_tiles')
            /\ Len(possible_carvers') >= NumCarvers
            /\ carvers' = SubSeq(possible_carvers', 1, NumCarvers) ]_vars

\* C20: a carver step takes the carver at the front of the queue and removes
\* at most one tile; the carver goes to the back, moved one step and turned
\* by 60 degrees one way or the other, if and only if the tiles left are more
\* than half of start_num_tiles, and is dropped otherwise; no other step
\* puts a carver into the queue once carving has begun.
C20_CarverRequeuedIffAboveHalf ==
    [][ /\ (stage = Carving /\ at = "loop" /\ at' = "check") =>
              LET carver == Head(carvers)[1]
                  direction == Head(carvers)[2]
              IN  /\ Len(generated_tiles') \in
                         {Len(generated_tiles), Len(generated_tiles) - 1}
                  /\ IF 2 * Len(generated_tiles') > start_num_tiles
                     THEN \E turned \in {TurnLeft(direction), TurnRight(direction)} :
                              carvers' = Append(Tail(carvers),
                                  << CarverMove(dimensions, carver, direction), turned >>)
                     ELSE carvers' = Tail(carvers)
        /\ (stage = Carving /\ ~(at = "loop" /\ at' = "check")) =>
              carvers' = carvers ]_vars

\* Carvers have been dropped at half of the tiles or fewer, and some remain.
C20_Witness ==
    /\ stage = Carving
    /\ at = "check"
    /\ 2 * Len(generated_tiles) <= start_num_tiles
    /\ carvers # << >>
    /\ Len(carvers) < NumCarvers - 1

\* The row and the column of the cell a tile was generated for, counted from
\* 0: tiles are generated row by row and take their identities in that order.
Columns(dims) == (dims[1] \div 2) + 1
RowOf(t) == (t.id - 1) \div Columns(dimensions)
ColumnOf(t) == (t.id - 1) % Columns(dimensions)

\* A tile stands rotated by PI when its first vertex, the apex, is below the
\* other two.
IsRotated(t) == t.vertices[1][2] < t.vertices[2][2]

\* C21: the tile generated at row r, column c is rotated by PI exactly when
\* r + c is odd, and its apex is above or below the centre of that cell,
\* the columns half a tile apart and the rows a row height apart.
C21_RotatedIffOddCell ==
    \A i \in DOMAIN generated_tiles :
        LET t == generated_tiles[i]
            r == RowOf(t)
            c == ColumnOf(t)
        IN  /\ IsRotated(t) <=> (r + c) % 2 = 1
            /\ t.vertices[1][1] = -(dimensions[1] \div 2) + c * HalfTile[1]
            /\ (t.vertices[1][2] + t.vertices[2][2]) \div 2 =
                   (dimensions[2] \div 2) - r * RowHeight[2]

\* Two rows are there: the second begins with a rotated tile, followed by an
\* upright one, under an upright and a rotated one.
C21_Witness ==
    /\ stage = GeneratingGrid
    /\ \E i, j \in DOMAIN generated_tiles :
          /\ RowOf(generated_tiles[i]) = 1 /\ ColumnOf(generated_tiles[i]) = 0
          /\ IsRotated(generated_tiles[i])
          /\ RowOf(generated_tiles[j]) = 1 /\ ColumnOf(generated_tiles[j]) = 1
          /\ ~IsRotated(generated_tiles[j])

\* How far below half of start_num_tiles the tile count may be with n
\* carvers still in the queue: one tile for each carver dropped after the
\* one that reached the half.
Overshoot(n) == IF n >= 9 THEN 0 ELSE 9 - n

\* C29: while carving, the queue never holds more than 10 carvers and a
\* carver step removes at most one tile (and none is removed otherwise);
\* with all 10 queued the tiles are more than half of T = start_num_tiles,
\* and with fewer the count is short of floor(T/2) by at most one tile for
\* each carver dropped after the first; so the finished World has between
\* floor(T/2) - 9 and floor(T/2) tiles.
C29_OvershootAtMostNine ==
    [][ stage' = Carving =>
          /\ Len(carvers') <= 10
          /\ Len(generated_tiles') <= start_num_tiles'
          /\ stage = Carving =>
                Len(generated_tiles) - Len(generated_tiles') \in
                    (IF at = "loop" /\ at' = "check" THEN {0, 1} ELSE {0})
          /\ Len(carvers') = 10 => 2 * Len(generated_tiles') > start_num_tiles'
          /\ Len(generated_tiles') >=
                 (start_num_tiles' \div 2) - Overshoot(Len(carvers'))
          /\ result'.kind = "Some" =>
                /\ Len(result'.v.tiles) >= (start_num_tiles' \div 2) - 9
                /\ Len(result'.v.tiles) <= start_num_tiles' \div 2 ]_vars

\* A finished world five tiles short of half.
C29_Witness ==
    /\ result.kind = "Some"
    /\ Len(result.v.tiles) <= (start_num_tiles \div 2) - 5
    /\ Len(result.v.tiles) > 0

\* The loop of generate has nothing left to do.
Finished == stage = Carving /\ carvers = << >>

\* C30: a World is returned only in the finished condition (stage Carving,
\* carver queue empty); from that condition no step changes the builder, a
\* call that finds it returns a World of the builder's tile list and nothing
\* else, and after a returned World the only step is the next call: every
\* later call returns a World with the same tiles.
C30_FinishedIsAbsorbing ==
    [][ /\ result.kind = "Some" =>
              /\ Finished
              /\ result.v = World(generated_tiles)
              /\ at = "idle" /\ at' = "loop"
        /\ Finished =>
              /\ Finished'
              /\ builderVars' = builderVars
              /\ at = "loop" =>
                    /\ result' = Some(World(generated_tiles))
                    /\ at' = "idle"
              /\ result'.kind = "Some" => result' = Some(World(generated_tiles)) ]_vars

\* A World returned by a call that found the builder finished and did no
\* work: every call after the first returned World is such a call.
C30_Witness ==
    /\ result.kind = "Some"
    /\ ~worked
    /\ at = "idle"
    /\ result.v.tiles # << >>

-----------------------------------------------------------------------------
(* Properties of index nodes (specification SpecNode) *)

\* C26, as stated: new_with_ranges rejects by assertion a range that is
\* inverted or has no extent, on either axis, and no other; so every child a
\* split constructs has its start strictly below its end on both axes.
C26_DegenerateRangesRejected ==
    /\ call.op = "new_with_ranges" =>
          (call.ret = AssertFailed
              <=> ~(HasExtent(call.x_range) /\ HasExtent(call.y_range)))
    /\ call.op = "split" =>
          \A c \in 1..4 :
              ~Aborted(call.ret[c]) =>
                  HasExtent(call.ret[c].x_range) /\ HasExtent(call.ret[c].y_range)

-----------------------------------------------------------------------------
(* Properties of QuadTree on polygons with a common vertex (specification SpecFan) *)

\* C28, as stated: insert returns, for every polygon and every state of the
\* index, also when more than MAX_TREE_ENTRIES stored polygons have a vertex
\* in common.
C28_InsertReturns == ~crashed

=============================================================================
